---- MODULE Spec2Model ----
(***************************************************************************)
(* The stack graph of crates/stack: StackGraph holds named stacks, each a  *)
(* tree of branches (Stack.branches, Stack.children_map), and the reverse  *)
(* index branch_to_stack.  The operations are StackGraph::new_stack,       *)
(* Stack::add_child and Stack::reorder_children.                           *)
(*                                                                         *)
(* Branch names are the integers 1..MaxBranch; their integer order stands  *)
(* for the string order Vec::sort uses.  BranchInfo keeps name, parent,    *)
(* hosted and status; author and created are never read by an operation    *)
(* and are left out.                                                       *)
(***************************************************************************)
EXTENDS Integers, Sequences, FiniteSets, TLC

\* Branch names available to the callers: 1..MaxBranch.
MaxBranch == 3
\* Longest new_order a caller passes to reorder_children.
MaxLen == 2
\* Cap on the number of branch nodes in the whole graph.
MaxNodes == 3
\* Cap on the number of branch nodes in the graph of each of two
\* invocations that run at the same time.
MaxRaceNodes == 2
\* Longest commit history given to from_commits.
MaxHist == 5
\* Number of distinct commit ids.
MaxCommit == 4
\* Most branches a core graph has after an add_child.
MaxCoreNodes == 3
\* Branch names and cap on the branch nodes where descendants is called.
MaxTree == 4
\* Most ops pushed onto the UndoLedger.
MaxPush == 3
\* Longest operations vector of a History.
MaxOps == 3
\* Largest max_size a history file holds.
MaxSize == 2

BranchNames == 1..MaxBranch
StackNames == {"s1", "s2"}

\* stacks, branch_to_stack: the StackGraph in memory (crates/stack).
\* last: the call just made and the value it returned.
\* file: the stack file <repo>/.git/zyra_stacks.json.
\* inv: two invocations of the tool that share the stack file.
\* core: the StackGraph of crates/core (parents, children, commits).
\* ledger: the UndoLedger of crates/core (ops, redo).
\* dropped: history, the op instances that a push cleared from the redo list.
\* hist: the History of the undo module (operations, max_size).
VARIABLES stacks, branch_to_stack, last, file, inv, core, ledger, dropped,
          hist

vars == <<stacks, branch_to_stack, last, file, inv, core, ledger, dropped,
          hist>>

(***************************************************************************)
(* Values                                                                  *)
(***************************************************************************)
None == <<>>
Some(x) == <<x>>

EmptyMap == <<>>

\* HashMap::contains_key
contains_key(m, k) == k \in DOMAIN m

\* HashMap::insert: adds the key or overwrites its value.
insert(m, k, v) == [x \in (DOMAIN m) \cup {k} |-> IF x = k THEN v ELSE m[x]]

\* Vec::push
push(v, x) == Append(v, x)

\* All vectors of branch names of length at most n.
Vecs(n) == UNION {[1..k -> BranchNames] : k \in 0..n}

RemoveAt(v, i) == [j \in 1..(Len(v) - 1) |-> IF j < i THEN v[j] ELSE v[j + 1]]

\* Vec::sort: ascending, duplicates kept.
RECURSIVE sort(_)
sort(v) ==
    IF v = <<>> THEN <<>>
    ELSE LET m == CHOOSE x \in {v[i] : i \in 1..Len(v)} :
                      \A j \in 1..Len(v) : x <= v[j]
             i == CHOOSE k \in 1..Len(v) :
                      v[k] = m /\ \A j \in 1..(k - 1) : v[j] # m
         IN  <<m>> \o sort(RemoveAt(v, i))

\* BranchInfo::new
BranchInfo_new(name, parent) ==
    [name |-> name, parent |-> parent, hosted |-> None, status |-> "Draft"]

\* Stack::new
Stack_new(name, root) ==
    [name         |-> name,
     root         |-> root,
     branches     |-> insert(EmptyMap, root, BranchInfo_new(root, None)),
     children_map |-> insert(EmptyMap, root, <<>>)]

\* Stack::contains_branch
contains_branch(stack, branch) == contains_key(stack.branches, branch)

\* Stack::children_of: empty if none / unknown.
children_of(stack, branch) ==
    IF contains_key(stack.children_map, branch)
    THEN stack.children_map[branch]
    ELSE <<>>

(***************************************************************************)
(* Results                                                                 *)
(***************************************************************************)
Ok == [tag |-> "Ok"]
StackExists(name) == [tag |-> "StackExists", name |-> name]
BranchExists(b) == [tag |-> "BranchExists", branch |-> b]
UnknownBranch(b) == [tag |-> "UnknownBranch", branch |-> b]
InvalidReorder(p, e, g) ==
    [tag |-> "InvalidReorder", parent |-> p, expected |-> e, got |-> g]

\* The graph as one value: StackGraph { stacks, branch_to_stack }.
Graph == [stacks |-> stacks, branch_to_stack |-> branch_to_stack]

\* StackGraph::has_stack
has_stack(g, name) == contains_key(g.stacks, name)

\* StackGraph::add_child_to_stack
add_child_to_stack(g, stack_name, child) ==
    [g EXCEPT !.branch_to_stack = insert(g.branch_to_stack, child, stack_name)]

(***************************************************************************)
(* Operations: each maps the graph and the arguments to the graph after    *)
(* the call and the value returned.                                        *)
(***************************************************************************)

\* new_stack that registers the stack before it checks the root branch.
new_stack_InsertFirst(g, name, root_branch) ==
    IF has_stack(g, name)
    THEN [g |-> g, res |-> StackExists(name)]
    ELSE LET g2 == [g EXCEPT !.stacks =
                        insert(g.stacks, name, Stack_new(name, root_branch))]
         IN  IF contains_key(g.branch_to_stack, root_branch)
             THEN [g |-> g2, res |-> BranchExists(root_branch)]
             ELSE [g |-> [g2 EXCEPT !.branch_to_stack =
                              insert(g.branch_to_stack, root_branch, name)],
                   res |-> Ok]

\* new_stack without the check that the root branch is free.
new_stack_NoBranchCheck(g, name, root_branch) ==
    IF has_stack(g, name)
    THEN [g |-> g, res |-> StackExists(name)]
    ELSE [g |-> [stacks |-> insert(g.stacks, name, Stack_new(name, root_branch)),
                 branch_to_stack |-> insert(g.branch_to_stack, root_branch, name)],
          res |-> Ok]

\* StackGraph::new_stack
new_stack(g, name, root_branch) ==
    IF has_stack(g, name)
    THEN [g |-> g, res |-> StackExists(name)]
    ELSE IF contains_key(g.branch_to_stack, root_branch)
    THEN [g |-> g, res |-> BranchExists(root_branch)]
    ELSE [g |-> [stacks |-> insert(g.stacks, name, Stack_new(name, root_branch)),
                 branch_to_stack |-> insert(g.branch_to_stack, root_branch, name)],
          res |-> Ok]

\* add_child without the check that parent is a branch of the stack.
add_child_NoParentCheck(g, s, parent, child) ==
    LET self == g.stacks[s] IN
    IF contains_branch(self, child)
    THEN [g |-> g, res |-> BranchExists(child)]
    ELSE LET info == BranchInfo_new(child, Some(parent))
             self2 == [self EXCEPT
                          !.branches = insert(self.branches, child, info),
                          !.children_map =
                              insert(self.children_map, parent,
                                     push(children_of(self, parent), child))]
             g2 == [g EXCEPT !.stacks = insert(g.stacks, s, self2)]
         IN  [g |-> add_child_to_stack(g2, self2.name, child), res |-> Ok]

\* add_child that records the child in `branches` but not in its parent's
\* list.
add_child_NoPush(g, s, parent, child) ==
    LET self == g.stacks[s] IN
    IF ~contains_branch(self, parent)
    THEN [g |-> g, res |-> UnknownBranch(parent)]
    ELSE IF contains_branch(self, child)
    THEN [g |-> g, res |-> BranchExists(child)]
    ELSE LET info == BranchInfo_new(child, Some(parent))
             self2 == [self EXCEPT
                          !.branches = insert(self.branches, child, info)]
             g2 == [g EXCEPT !.stacks = insert(g.stacks, s, self2)]
         IN  [g |-> add_child_to_stack(g2, self2.name, child), res |-> Ok]

\* add_child that puts the child at the front of its parent's list.
add_child_Prepend(g, s, parent, child) ==
    LET self == g.stacks[s] IN
    IF ~contains_branch(self, parent)
    THEN [g |-> g, res |-> UnknownBranch(parent)]
    ELSE IF contains_branch(self, child)
    THEN [g |-> g, res |-> BranchExists(child)]
    ELSE LET info == BranchInfo_new(child, Some(parent))
             self2 == [self EXCEPT
                          !.branches = insert(self.branches, child, info),
                          !.children_map =
                              insert(self.children_map, parent,
                                     <<child>> \o children_of(self, parent))]
             g2 == [g EXCEPT !.stacks = insert(g.stacks, s, self2)]
         IN  [g |-> add_child_to_stack(g2, self2.name, child), res |-> Ok]

\* Stack::add_child on the stack registered as s; `graph` is the graph that
\* holds it.
add_child(g, s, parent, child) ==
    LET self == g.stacks[s] IN
    IF ~contains_branch(self, parent)
    THEN [g |-> g, res |-> UnknownBranch(parent)]
    ELSE IF contains_branch(self, child)
    THEN [g |-> g, res |-> BranchExists(child)]
    ELSE LET info == BranchInfo_new(child, Some(parent))
             self2 == [self EXCEPT
                          !.branches = insert(self.branches, child, info),
                          !.children_map =
                              insert(self.children_map, parent,
                                     push(children_of(self, parent), child))]
             g2 == [g EXCEPT !.stacks = insert(g.stacks, s, self2)]
         IN  [g |-> add_child_to_stack(g2, self2.name, child), res |-> Ok]

\* reorder_children comparing the two lists as sets, not as sorted vectors.
reorder_children_SetCompare(g, s, parent, new_order) ==
    LET self == g.stacks[s] IN
    IF ~contains_key(self.children_map, parent)
    THEN [g |-> g, res |-> UnknownBranch(parent)]
    ELSE LET cur == self.children_map[parent]
             current == sort(cur)
         IN  IF {cur[i] : i \in 1..Len(cur)}
                    # {new_order[i] : i \in 1..Len(new_order)}
             THEN [g |-> g, res |-> InvalidReorder(parent, current, new_order)]
             ELSE [g |-> [g EXCEPT !.stacks[s].children_map =
                              insert(self.children_map, parent, new_order)],
                   res |-> Ok]

\* reorder_children that stores the sorted copy instead of new_order.
reorder_children_StoreSorted(g, s, parent, new_order) ==
    LET self == g.stacks[s] IN
    IF ~contains_key(self.children_map, parent)
    THEN [g |-> g, res |-> UnknownBranch(parent)]
    ELSE LET current == sort(self.children_map[parent])
             proposed == sort(new_order)
         IN  IF current # proposed
             THEN [g |-> g, res |-> InvalidReorder(parent, current, new_order)]
             ELSE [g |-> [g EXCEPT !.stacks[s].children_map =
                              insert(self.children_map, parent, proposed)],
                   res |-> Ok]

\* Stack::reorder_children on the stack registered as s.
reorder_children(g, s, parent, new_order) ==
    LET self == g.stacks[s] IN
    IF ~contains_key(self.children_map, parent)
    THEN [g |-> g, res |-> UnknownBranch(parent)]
    ELSE LET current == sort(self.children_map[parent])
             proposed == sort(new_order)
         IN  IF current # proposed
             THEN [g |-> g, res |-> InvalidReorder(parent, current, new_order)]
             ELSE [g |-> [g EXCEPT !.stacks[s].children_map =
                              insert(self.children_map, parent, new_order)],
                   res |-> Ok]

(***************************************************************************)
(* Persistence (persist.rs, StackGraph::load_or_default / save)            *)
(*                                                                         *)
(* The stack file is absent, holds the JSON text of a graph, holds text    *)
(* that is no JSON of a graph (a write that broke off), or is present but  *)
(* cannot be read.                                                         *)
(***************************************************************************)
Absent == [kind |-> "absent"]
Garbage == [kind |-> "garbage"]
Unreadable == [kind |-> "unreadable"]
Text(json) == [kind |-> "text", json |-> json]

Io(what) == [tag |-> "Io", what |-> what]
Serde == [tag |-> "Serde"]

\* #[serde(rename_all = "snake_case")] on BranchStatus.
status_to_json(st) ==
    CASE st = "Draft" -> "draft"
      [] st = "Open" -> "open"
      [] st = "Landed" -> "landed"
      [] st = "Abandoned" -> "abandoned"

status_from_json(j) ==
    CASE j = "draft" -> "Draft"
      [] j = "open" -> "Open"
      [] j = "landed" -> "Landed"
      [] j = "abandoned" -> "Abandoned"

\* Option<T> in JSON: null or the value.
JNull == [null |-> TRUE]
JValue(x) == [value |-> x]
option_to_json(o) == IF o = None THEN JNull ELSE JValue(o[1])
option_from_json(j) == IF j = JNull THEN None ELSE Some(j.value)

\* derive(Serialize) for BranchInfo
info_to_json(i) ==
    [name |-> i.name, parent |-> option_to_json(i.parent),
     hosted |-> option_to_json(i.hosted), status |-> status_to_json(i.status)]

\* derive(Deserialize) for BranchInfo
info_from_json(j) ==
    [name |-> j.name, parent |-> option_from_json(j.parent),
     hosted |-> option_from_json(j.hosted), status |-> status_from_json(j.status)]

\* Serialize for Stack that writes every children list in sorted order.
stack_to_json_SortedChildren(st) ==
    [name |-> st.name, root |-> st.root,
     branches |-> [b \in DOMAIN st.branches |-> info_to_json(st.branches[b])],
     children_map |-> [p \in DOMAIN st.children_map |-> sort(st.children_map[p])]]

\* derive(Serialize) for Stack
stack_to_json(st) ==
    [name |-> st.name, root |-> st.root,
     branches |-> [b \in DOMAIN st.branches |-> info_to_json(st.branches[b])],
     children_map |-> st.children_map]

\* derive(Deserialize) for Stack
stack_from_json(j) ==
    [name |-> j.name, root |-> j.root,
     branches |-> [b \in DOMAIN j.branches |-> info_from_json(j.branches[b])],
     children_map |-> j.children_map]

\* derive(Serialize) for StackGraph: branch_to_stack is #[serde(skip)].
graph_to_json(g) ==
    [stacks |-> [s \in DOMAIN g.stacks |-> stack_to_json(g.stacks[s])]]

\* derive(Deserialize) for StackGraph: the skipped index gets its default.
graph_from_json(j) ==
    [stacks |-> [s \in DOMAIN j.stacks |-> stack_from_json(j.stacks[s])],
     branch_to_stack |-> EmptyMap]

\* StackGraph::default
StackGraph_default == [stacks |-> EmptyMap, branch_to_stack |-> EmptyMap]

\* persist::load
persist_load(f) ==
    CASE f.kind = "text" -> [tag |-> "Ok", graph |-> graph_from_json(f.json)]
      [] f.kind = "garbage" -> Serde
      [] f.kind = "absent" -> [tag |-> "Ok", graph |-> StackGraph_default]
      [] f.kind = "unreadable" -> Io("read_to_string")

\* Result::unwrap_or_default
unwrap_or_default(r) == IF r.tag = "Ok" THEN r.graph ELSE StackGraph_default

\* The orders in which a HashMap may hand out the keys in S.
RECURSIVE Orders(_)
Orders(S) ==
    IF S = {} THEN {<<>>}
    ELSE UNION {{<<x>> \o o : o \in Orders(S \ {x})} : x \in S}

\* StackGraph::reindex, with `order` the order in which the HashMap
\* self.stacks hands out the stack names it holds (names it does not hold
\* are passed over): a later stack overwrites the entry of an earlier one.
RECURSIVE reindex_from(_, _, _)
reindex_from(g, order, idx) ==
    IF order = <<>> THEN idx
    ELSE LET name == Head(order)
             keys == IF name \in DOMAIN g.stacks
                     THEN DOMAIN g.stacks[name].branches
                     ELSE {}
             idx2 == [b \in (DOMAIN idx) \cup keys |->
                         IF b \in keys THEN name ELSE idx[b]]
         IN  reindex_from(g, Tail(order), idx2)

reindex(g, order) ==
    [g EXCEPT !.branch_to_stack = reindex_from(g, order, EmptyMap)]

\* StackGraph::load_or_default
load_or_default(f, order) ==
    LET graph == unwrap_or_default(persist_load(f))
    IN  [g |-> reindex(graph, order), res |-> Ok]

\* What the file system does to a save: all goes well, create_dir_all
\* fails, the file cannot be opened for writing, or the write breaks off.
IoOutcomes == {"ok", "create_dir_all", "open", "write"}

\* persist::save that does not replace a stack file that is already there.
persist_save_KeepExisting(f, g, io) ==
    LET raw == graph_to_json(g) IN
    CASE io = "ok" -> [file |-> IF f.kind = "absent" THEN Text(raw) ELSE f,
                       res |-> Ok]
      [] io = "create_dir_all" -> [file |-> f, res |-> Io(io)]
      [] io = "open" -> [file |-> f, res |-> Io(io)]
      [] io = "write" -> [file |-> Garbage, res |-> Io(io)]

\* persist::save
persist_save(f, g, io) ==
    LET raw == graph_to_json(g) IN
    CASE io = "ok" -> [file |-> Text(raw), res |-> Ok]
      [] io = "create_dir_all" -> [file |-> f, res |-> Io(io)]
      [] io = "open" -> [file |-> f, res |-> Io(io)]
      [] io = "write" -> [file |-> Garbage, res |-> Io(io)]

\* StackGraph::save
save(f, g, io) == persist_save(f, g, io)

\* The invocations of the tool that may run at the same time.
Invocations == {1, 2}
NotStarted == [pc |-> "start"]

\* No graph of crates/core has been built.
NoCore == [built |-> FALSE]

\* UndoLedger::default (derive Default)
UndoLedger_default == [ops |-> <<>>, redo |-> <<>>]

\* History::default (derive Default): no operations, max_size 0.
History_default == [operations |-> <<>>, max_size |-> 0]

(***************************************************************************)
(* State machine                                                           *)
(***************************************************************************)
NodeCount(g) ==
    LET RECURSIVE Sum(_)
        Sum(S) == IF S = {} THEN 0
                  ELSE LET s == CHOOSE x \in S : TRUE
                       IN  Cardinality(DOMAIN g.stacks[s].branches) + Sum(S \ {s})
    IN  Sum(DOMAIN g.stacks)

\* The caller holds no Result: it is between two calls.
Idle == [op |-> "idle"]

\* StackGraph::default; no stack file yet; no invocation started; no core
\* graph built; UndoLedger::default; History::default.
Init ==
    /\ stacks = EmptyMap
    /\ branch_to_stack = EmptyMap
    /\ last = Idle
    /\ file = Absent
    /\ inv = [i \in Invocations |-> NotStarted]
    /\ core = NoCore
    /\ ledger = UndoLedger_default
    /\ dropped = {}
    /\ hist = History_default

\* One call: the graph becomes the graph after the call and `last` holds the
\* call and the Result handed to the caller.
Apply(r, call) ==
    /\ r.res.tag = "Ok" => NodeCount(r.g) <= MaxNodes
    /\ stacks' = r.g.stacks
    /\ branch_to_stack' = r.g.branch_to_stack
    /\ last' = call @@ [res |-> r.res]
    /\ UNCHANGED <<file, inv, core,
                    ledger, dropped, hist>>

NewStack ==
    /\ last = Idle
    /\ \E name \in StackNames, root \in BranchNames :
        Apply(new_stack(Graph, name, root),
              [op |-> "new_stack", stack |-> name, root |-> root])

AddChild ==
    /\ last = Idle
    /\ \E s \in DOMAIN stacks, parent \in BranchNames, child \in BranchNames :
        Apply(add_child(Graph, s, parent, child),
              [op |-> "add_child", stack |-> s, parent |-> parent, child |-> child])

ReorderChildren ==
    /\ last = Idle
    /\ \E s \in DOMAIN stacks, parent \in BranchNames, v \in Vecs(MaxLen) :
        Apply(reorder_children(Graph, s, parent, v),
              [op |-> "reorder_children", stack |-> s, parent |-> parent,
               new_order |-> v])

\* The caller is done with the Result (`?`, unwrap, expect) and goes on.
Return ==
    /\ last # Idle
    /\ last' = Idle
    /\ UNCHANGED <<stacks, branch_to_stack, file, inv, core,
                    ledger, dropped, hist>>

Next == NewStack \/ AddChild \/ ReorderChildren \/ Return

Spec == Init /\ [][Next]_vars

(***************************************************************************)
(* One invocation with the stack file: mutations in memory, save,          *)
(* load_or_default, and what the file system and other programs do to the  *)
(* file.  A mutation here is a call that succeeded, the caller going on at *)
(* once; a call that fails leaves the graph as it is.                      *)
(***************************************************************************)
Mutated(r) ==
    /\ r.res.tag = "Ok"
    /\ NodeCount(r.g) <= MaxNodes
    /\ stacks' = r.g.stacks
    /\ branch_to_stack' = r.g.branch_to_stack
    /\ UNCHANGED <<last, file, inv, core,
                    ledger, dropped, hist>>

\* The vectors that have the length of v and only elements of v.
Rearrangements(v) == [1..Len(v) -> {v[i] : i \in 1..Len(v)}]

MutNewStack ==
    /\ last = Idle
    /\ \E name \in StackNames, root \in BranchNames :
           Mutated(new_stack(Graph, name, root))

MutAddChild ==
    /\ last = Idle
    /\ \E s \in DOMAIN stacks :
           \E parent \in DOMAIN stacks[s].branches, child \in BranchNames :
               Mutated(add_child(Graph, s, parent, child))

MutReorderChildren ==
    /\ last = Idle
    /\ \E s \in DOMAIN stacks :
           \E parent \in DOMAIN stacks[s].children_map :
               \E v \in Rearrangements(stacks[s].children_map[parent]) :
                   Mutated(reorder_children(Graph, s, parent, v))

Save ==
    /\ last = Idle
    /\ \E io \in IoOutcomes :
           LET r == save(file, Graph, io) IN
           /\ file' = r.file
           /\ last' = [op |-> "save", io |-> io, res |-> r.res]
    /\ UNCHANGED <<stacks, branch_to_stack, inv, core,
                    ledger, dropped, hist>>

Load ==
    /\ last = Idle
    /\ \E order \in Orders(StackNames) :
           LET r == load_or_default(file, order) IN
           /\ stacks' = r.g.stacks
           /\ branch_to_stack' = r.g.branch_to_stack
           /\ last' = [op |-> "load_or_default", res |-> r.res]
    /\ UNCHANGED <<file, inv, core,
                    ledger, dropped, hist>>

\* Another program makes the file unreadable (persist::load then takes its
\* Err(StackError::Io) arm).
EnvUnreadable ==
    /\ last = Idle
    /\ file.kind \in {"text", "garbage"}
    /\ file' = Unreadable
    /\ UNCHANGED <<stacks, branch_to_stack, last, inv, core,
                    ledger, dropped, hist>>

NextPersist ==
    \/ MutNewStack \/ MutAddChild \/ MutReorderChildren
    \/ Save \/ Load \/ EnvUnreadable \/ Return

SpecPersist == Init /\ [][NextPersist]_vars

(***************************************************************************)
(* Two invocations against the same repository.  Each runs                 *)
(* load_or_default, then mutations on its own graph in memory, then save,  *)
(* and ends, which frees its graph; the steps of the two interleave in any  *)
(* order.  `stale` and `wrote` are history: the other invocation has saved *)
(* since this one loaded; the stacks this invocation saved.                *)
(***************************************************************************)
InvLoad(i) ==
    /\ inv[i].pc = "start"
    /\ \E order \in Orders(StackNames) :
           LET r == load_or_default(file, order) IN
           /\ inv' = [inv EXCEPT ![i] = [pc |-> "loaded", g |-> r.g,
                                         stale |-> FALSE]]
           /\ last' = [op |-> "load_or_default", who |-> i, res |-> r.res]
    /\ UNCHANGED <<stacks, branch_to_stack, file, core,
                    ledger, dropped, hist>>

InvMutated(i, r) ==
    /\ r.res.tag = "Ok"
    /\ NodeCount(r.g) <= MaxRaceNodes
    /\ inv' = [inv EXCEPT ![i].g = r.g]
    /\ last' = Idle
    /\ UNCHANGED <<stacks, branch_to_stack, file, core,
                    ledger, dropped, hist>>

InvMutate(i) ==
    /\ inv[i].pc = "loaded"
    /\ LET g == inv[i].g IN
       \/ \E name \in StackNames, root \in BranchNames :
              InvMutated(i, new_stack(g, name, root))
       \/ \E s \in DOMAIN g.stacks :
              \E parent \in DOMAIN g.stacks[s].branches, child \in BranchNames :
                  InvMutated(i, add_child(g, s, parent, child))
       \/ \E s \in DOMAIN g.stacks :
              \E parent \in DOMAIN g.stacks[s].children_map :
                  \E v \in Rearrangements(g.stacks[s].children_map[parent]) :
                      InvMutated(i, reorder_children(g, s, parent, v))

InvSave(i) ==
    /\ inv[i].pc = "loaded"
    /\ \E io \in IoOutcomes :
           LET r == save(file, inv[i].g, io) IN
           /\ file' = r.file
           /\ inv' = [j \in Invocations |->
                         IF j = i
                         THEN IF r.res.tag = "Ok"
                              THEN [pc |-> "saved", stale |-> inv[j].stale,
                                    wrote |-> inv[j].g.stacks]
                              ELSE [pc |-> "failed"]
                         ELSE IF inv[j].pc = "loaded" /\ r.res.tag = "Ok"
                         THEN [inv[j] EXCEPT !.stale = TRUE]
                         ELSE inv[j]]
           /\ last' = [op |-> "save", who |-> i, io |-> io, res |-> r.res]
    /\ UNCHANGED <<stacks, branch_to_stack, core,
                    ledger, dropped, hist>>

NextRace == \E i \in Invocations : InvLoad(i) \/ InvMutate(i) \/ InvSave(i)

SpecRace == Init /\ [][NextRace]_vars

(***************************************************************************)
(* crates/core: the StackGraph built from a commit history                  *)
(*                                                                         *)
(* A branch name of this graph is a sequence of numbers: "root" is <<0>>,   *)
(* format!("{}/{}", p, k) is Append(p, k), so "root/1/2" is <<0, 1, 2>>.    *)
(* A commit id is a number.  `order` is history, not a field of the code:   *)
(* the keys of `children` in the order they were inserted.                  *)
(***************************************************************************)
CommitIds == 1..MaxCommit
Histories == UNION {[1..n -> CommitIds] : n \in 0..MaxHist}

CoreRoot == <<0>>
\* Names a caller passes to add_child: "root/1" and a name of its own.
CallerNames == {Append(CoreRoot, 1), <<MaxCommit + 1>>}

CoreOk(g) == [tag |-> "Ok", graph |-> g]
CoreError_Graph(msg) == [tag |-> "Graph", msg |-> msg]

Node(b, c) == [branch |-> b, commit |-> c]

CoreGraph_default ==
    [parents |-> EmptyMap, children |-> EmptyMap, commits |-> EmptyMap,
     order |-> <<>>]

\* The entries `commits.iter().find(|(_, tip)| tip == id)` can return: the
\* iteration order of a HashMap is not specified, so with several branches
\* at this tip any of them may come first.
tip_owners(g, id) == {b \in DOMAIN g.commits : g.commits[b] = id}

\* `children.insert(b, Vec::new())` for a key that may be new.
insert_children(g, b) ==
    [g EXCEPT !.children = insert(@, b, <<>>),
              !.order = IF contains_key(g.children, b) THEN @ ELSE Append(@, b)]

from_commits_fork_ZeroBased(g, parent_branch) ==
    LET child_idx == Len(g.children[parent_branch])
        current_branch == Append(parent_branch, child_idx)
        g1 == [g EXCEPT !.parents = insert(@, current_branch, Some(parent_branch)),
                        !.children = insert(@, parent_branch,
                                            push(g.children[parent_branch],
                                                 current_branch))]
    IN  [g |-> insert_children(g1, current_branch), cur |-> current_branch]

from_commits_fork_NoParent(g, parent_branch) ==
    LET child_idx == Len(g.children[parent_branch]) + 1
        current_branch == Append(parent_branch, child_idx)
        g1 == [g EXCEPT !.children = insert(@, parent_branch,
                                            push(g.children[parent_branch],
                                                 current_branch))]
    IN  [g |-> insert_children(g1, current_branch), cur |-> current_branch]

\* The fork at parent_branch: the new child branch becomes current.
from_commits_fork(g, parent_branch) ==
    LET child_idx == Len(g.children[parent_branch]) + 1
        current_branch == Append(parent_branch, child_idx)
        g1 == [g EXCEPT !.parents = insert(@, current_branch, Some(parent_branch)),
                        !.children = insert(@, parent_branch,
                                            push(g.children[parent_branch],
                                                 current_branch))]
    IN  [g |-> insert_children(g1, current_branch), cur |-> current_branch]

\* `g.commits.insert(current_branch, id)`
record_tip(st, id) == [st EXCEPT !.g.commits = insert(@, st.cur, id)]

from_commits_commit_KeepTip(st, id) ==
    IF tip_owners(st.g, id) = {}
    THEN {st}
    ELSE {record_tip(from_commits_fork(st.g, p), id) : p \in tip_owners(st.g, id)}

\* One turn of the loop over the commits after the first: the states it can
\* leave behind.
from_commits_commit(st, id) ==
    IF tip_owners(st.g, id) = {}
    THEN {record_tip(st, id)}
    ELSE {record_tip(from_commits_fork(st.g, p), id) : p \in tip_owners(st.g, id)}

RECURSIVE from_commits_loop(_, _)
from_commits_loop(sts, rest) ==
    IF rest = <<>> THEN sts
    ELSE from_commits_loop(UNION {from_commits_commit(st, Head(rest)) : st \in sts},
                           Tail(rest))

\* The root node for the first commit.
from_commits_root(first) ==
    [g |-> [parents |-> insert(EmptyMap, CoreRoot, None),
            children |-> insert(EmptyMap, CoreRoot, <<>>),
            commits |-> insert(EmptyMap, CoreRoot, first),
            order |-> <<CoreRoot>>],
     cur |-> CoreRoot]

from_commits_EmptyIsDefault(history) ==
    IF history = <<>>
    THEN {CoreOk(CoreGraph_default)}
    ELSE {CoreOk(st.g) :
            st \in from_commits_loop({from_commits_root(Head(history))},
                                     Tail(history))}

\* StackGraph::from_commits: the Results it can return for this history.
from_commits(history) ==
    IF history = <<>>
    THEN {CoreError_Graph("empty history")}
    ELSE {CoreOk(st.g) :
            st \in from_commits_loop({from_commits_root(Head(history))},
                                     Tail(history))}

\* StackGraph::add_child of crates/core: the outcomes it can have.
core_add_child(g, tip_commit, child) ==
    IF contains_key(g.commits, child)
    THEN {[g |-> g, res |-> CoreError_Graph("branch already exists")]}
    ELSE IF tip_owners(g, tip_commit) = {}
    THEN {[g |-> g, res |-> CoreError_Graph("parent branch not found")]}
    ELSE {LET g1 == [g EXCEPT
                       !.parents = insert(@, child, Some(parent)),
                       !.children = insert(@, parent,
                                           push(IF contains_key(g.children, parent)
                                                THEN g.children[parent]
                                                ELSE <<>>, child))]
              g2 == insert_children(g1, child)
          IN  [g |-> [g2 EXCEPT !.commits = insert(@, child, tip_commit)],
               res |-> Ok] :
          parent \in tip_owners(g, tip_commit)}

\* The keys `children.iter().find(|(_, v)| v.is_empty())` can return.
leaves(g) == {b \in DOMAIN g.children : g.children[b] = <<>>}

\* StackGraph::current_tip: the values it can return.
current_tip(g) ==
    IF leaves(g) = {} THEN {None}
    ELSE {IF contains_key(g.commits, tip)
          THEN Some(Node(tip, g.commits[tip])) ELSE None : tip \in leaves(g)}

\* `siblings.iter().position(|x| x == b)`, counted from 1.
position(v, x) ==
    IF \E i \in 1..Len(v) : v[i] = x
    THEN Some(CHOOSE i \in 1..Len(v) :
                  v[i] = x /\ \A j \in 1..(i - 1) : v[j] # x)
    ELSE None

\* `siblings.get(i).cloned()`, counted from 1.
get(v, i) == IF i \in 1..Len(v) THEN Some(v[i]) ELSE None

\* The `?` chain both next_of and prev_of start with: the siblings of b and
\* its index among them, or None.
siblings_of(g, b) ==
    IF ~contains_key(g.parents, b) THEN None
    ELSE IF g.parents[b] = None THEN None
    ELSE LET parent == g.parents[b][1] IN
         IF ~contains_key(g.children, parent) THEN None
         ELSE LET siblings == g.children[parent]
                  idx == position(siblings, b)
              IN  IF idx = None THEN None
                  ELSE Some([siblings |-> siblings, idx |-> idx[1]])

next_of_Wrap(g, b) ==
    LET s == siblings_of(g, b) IN
    IF s = None THEN None
    ELSE IF s[1].idx = Len(s[1].siblings) THEN get(s[1].siblings, 1)
    ELSE get(s[1].siblings, s[1].idx + 1)

\* StackGraph::next_of
next_of(g, b) ==
    LET s == siblings_of(g, b) IN
    IF s = None THEN None ELSE get(s[1].siblings, s[1].idx + 1)

\* StackGraph::prev_of
prev_of(g, b) ==
    LET s == siblings_of(g, b) IN
    IF s = None THEN None
    ELSE IF s[1].idx = 1 THEN None
    ELSE get(s[1].siblings, s[1].idx - 1)

(***************************************************************************)
(* The core graph in use: StackService::discover builds it once from a     *)
(* history, add_child extends it, the navigation calls read it.            *)
(***************************************************************************)
FromCommits ==
    /\ last = Idle
    /\ core = NoCore
    /\ \E history \in Histories :
           \E r \in from_commits(history) :
               /\ core' = IF r.tag = "Ok" THEN r.graph ELSE core
               /\ last' = [op |-> "from_commits", history |-> history, res |-> r]
    /\ UNCHANGED <<stacks, branch_to_stack, file, inv,
                    ledger, dropped, hist>>

CoreAddChild ==
    /\ last = Idle
    /\ core # NoCore
    /\ \E tip_commit \in CommitIds, child \in CallerNames :
           \E r \in core_add_child(core, tip_commit, child) :
               /\ r.res.tag = "Ok" =>
                      Cardinality(DOMAIN r.g.commits) <= MaxCoreNodes
               /\ core' = r.g
               /\ last' = [op |-> "core_add_child", tip_commit |-> tip_commit,
                           child |-> child, res |-> r.res]
    /\ UNCHANGED <<stacks, branch_to_stack, file, inv,
                    ledger, dropped, hist>>

CurrentTip ==
    /\ last = Idle
    /\ core # NoCore
    /\ \E r \in current_tip(core) :
           last' = [op |-> "current_tip", res |-> r]
    /\ UNCHANGED <<stacks, branch_to_stack, file, inv, core,
                    ledger, dropped, hist>>

NextOf ==
    /\ last = Idle
    /\ core # NoCore
    /\ \E b \in DOMAIN core.parents \cup CallerNames :
           last' = [op |-> "next_of", branch |-> b, res |-> next_of(core, b)]
    /\ UNCHANGED <<stacks, branch_to_stack, file, inv, core,
                    ledger, dropped, hist>>

PrevOf ==
    /\ last = Idle
    /\ core # NoCore
    /\ \E b \in DOMAIN core.parents \cup CallerNames :
           last' = [op |-> "prev_of", branch |-> b, res |-> prev_of(core, b)]
    /\ UNCHANGED <<stacks, branch_to_stack, file, inv, core,
                    ledger, dropped, hist>>

NextCore ==
    FromCommits \/ CoreAddChild \/ CurrentTip \/ NextOf \/ PrevOf \/ Return

SpecCore == Init /\ [][NextCore]_vars

(***************************************************************************)
(* StackGraph::from_commits turn by turn: `core` holds the locals of the   *)
(* call (g, current_branch, the commits the iterator still holds) while    *)
(* the loop runs, and the graph once the call has returned.                *)
(***************************************************************************)
InLoop(c) == "pc" \in DOMAIN c /\ c.pc = "loop"

\* The call up to the loop: the empty history returns at once.
BuildStart ==
    /\ last = Idle
    /\ core = NoCore
    /\ \E history \in Histories :
           IF history = <<>>
           THEN /\ core' = core
                /\ last' = [op |-> "from_commits", history |-> history,
                            res |-> CoreError_Graph("empty history")]
           ELSE LET st == from_commits_root(Head(history)) IN
                /\ core' = [pc |-> "loop", g |-> st.g, cur |-> st.cur,
                            rest |-> Tail(history), history |-> history]
                /\ last' = last
    /\ UNCHANGED <<stacks, branch_to_stack, file, inv,
                    ledger, dropped, hist>>

\* One turn of `for commit in iter`.
BuildCommit ==
    /\ InLoop(core)
    /\ core.rest # <<>>
    /\ \E st \in from_commits_commit([g |-> core.g, cur |-> core.cur],
                                      Head(core.rest)) :
           core' = [core EXCEPT !.g = st.g, !.cur = st.cur,
                                !.rest = Tail(core.rest)]
    /\ UNCHANGED <<stacks, branch_to_stack, last, file, inv,
                    ledger, dropped, hist>>

\* The iterator is exhausted: Ok(g).
BuildReturn ==
    /\ InLoop(core)
    /\ core.rest = <<>>
    /\ core' = core.g
    /\ last' = [op |-> "from_commits", history |-> core.history,
                res |-> CoreOk(core.g)]
    /\ UNCHANGED <<stacks, branch_to_stack, file, inv,
                    ledger, dropped, hist>>

NextBuild == BuildStart \/ BuildCommit \/ BuildReturn \/ Return

SpecBuild == Init /\ [][NextBuild]_vars

(***************************************************************************)
(* StackService::create_child_branch (`sage stack child <name>`)           *)
(***************************************************************************)
\* What repo.head() and repo.list_commits() hand to discover: an error of
\* the git port, or the history.
RepoError == [tag |-> "Repo"]
RepoOutcomes == {RepoError} \cup {[tag |-> "Ok", history |-> h] : h \in Histories}

CreateBranch(name, start_port) ==
    [action |-> "CreateBranch", name |-> name, start_port |-> start_port]

\* StackService::discover
discover(repo) ==
    IF repo.tag # "Ok" THEN {repo} ELSE from_commits(repo.history)

\* The rest of create_child_branch once current_tip has returned `tip`;
\* `tip` is kept next to the Result as history.
create_child_branch_at(graph, tip, new) ==
    IF tip = None
    THEN {[res |-> CoreError_Graph("empty repo"), tip |-> tip]}
    ELSE {[res |-> IF a.res.tag = "Ok"
                   THEN [tag |-> "Ok", graph |-> a.g,
                         actions |-> <<CreateBranch(new, tip[1].commit)>>]
                   ELSE a.res,
           tip |-> tip] : a \in core_add_child(graph, tip[1].commit, new)}

\* StackService::create_child_branch: the outcomes it can have.
create_child_branch(repo, new) ==
    UNION {IF d.tag # "Ok"
           THEN {[res |-> d, tip |-> None]}
           ELSE UNION {create_child_branch_at(d.graph, tip, new) :
                         tip \in current_tip(d.graph)} :
           d \in discover(repo)}

\* The service keeps no graph between calls: the caller gets the graph and
\* the actions in the Result.
CreateChildBranch ==
    /\ last = Idle
    /\ \E repo \in RepoOutcomes, new \in CallerNames :
           \E r \in create_child_branch(repo, new) :
               last' = [op |-> "create_child_branch", repo |-> repo,
                        new |-> new, tip |-> r.tip, res |-> r.res]
    /\ UNCHANGED <<stacks, branch_to_stack, file, inv, core,
                    ledger, dropped, hist>>

NextService == CreateChildBranch \/ Return

SpecService == Init /\ [][NextService]_vars

(***************************************************************************)
(* Stack::descendants, on stacks large enough for a branch with two        *)
(* children of which the first has a child of its own.                     *)
(***************************************************************************)
TreeNames == 1..MaxTree

RECURSIVE descendants_from_DepthFirst(_, _)
descendants_from_DepthFirst(stack, queue) ==
    IF queue = <<>> THEN <<>>
    ELSE LET next == Head(queue)
             children == IF contains_key(stack.children_map, next)
                         THEN stack.children_map[next] ELSE <<>>
         IN  <<next>> \o descendants_from_DepthFirst(stack, children \o Tail(queue))

\* The elements the iterator yields from this queue on: pop_front, push_back
\* of each child of the popped branch, yield it; the end when the queue is
\* empty.
RECURSIVE descendants_from(_, _)
descendants_from(stack, queue) ==
    IF queue = <<>> THEN <<>>
    ELSE LET next == Head(queue)
             children == IF contains_key(stack.children_map, next)
                         THEN stack.children_map[next] ELSE <<>>
         IN  <<next>> \o descendants_from(stack, Tail(queue) \o children)

\* Stack::descendants, collected.
descendants(stack, branch) == descendants_from(stack, <<branch>>)

TreeMutated(r) ==
    /\ r.res.tag = "Ok"
    /\ NodeCount(r.g) <= MaxTree
    /\ stacks' = r.g.stacks
    /\ branch_to_stack' = r.g.branch_to_stack
    /\ UNCHANGED <<last, file, inv, core,
                    ledger, dropped, hist>>

TreeNewStack ==
    /\ last = Idle
    /\ \E name \in StackNames, root \in TreeNames :
           TreeMutated(new_stack(Graph, name, root))

TreeAddChild ==
    /\ last = Idle
    /\ \E s \in DOMAIN stacks :
           \E parent \in DOMAIN stacks[s].branches, child \in TreeNames :
               TreeMutated(add_child(Graph, s, parent, child))

TreeReorderChildren ==
    /\ last = Idle
    /\ \E s \in DOMAIN stacks :
           \E parent \in DOMAIN stacks[s].children_map :
               \E v \in Rearrangements(stacks[s].children_map[parent]) :
                   TreeMutated(reorder_children(Graph, s, parent, v))

\* The caller collects the iterator; the stack is borrowed, not changed.
Descendants ==
    /\ last = Idle
    /\ \E s \in DOMAIN stacks, b \in TreeNames :
           last' = [op |-> "descendants", stack |-> s, branch |-> b,
                    res |-> descendants(stacks[s], b)]
    /\ UNCHANGED <<stacks, branch_to_stack, file, inv, core,
                    ledger, dropped, hist>>

NextTree ==
    TreeNewStack \/ TreeAddChild \/ TreeReorderChildren \/ Descendants \/ Return

SpecTree == Init /\ [][NextTree]_vars

(***************************************************************************)
(* crates/core: UndoLedger and UndoService                                 *)
(*                                                                         *)
(* An entry of the ledger is the UndoOp with the number of the push that   *)
(* recorded it; the number is history that tells two equal ops apart.      *)
(***************************************************************************)
UndoOps == {"CreateBranch", "DeleteBranch"}

InvalidOp(msg) == [tag |-> "InvalidOp", msg |-> msg]

\* `v.pop()`: the vector without its last element.
pop(v) == SubSeq(v, 1, Len(v) - 1)

UndoLedger_push_KeepRedo(l, op) == [ops |-> push(l.ops, op), redo |-> l.redo]

\* UndoLedger::push
UndoLedger_push(l, op) == [ops |-> push(l.ops, op), redo |-> <<>>]

UndoLedger_undo_Oldest(l) ==
    IF l.ops = <<>> THEN [l |-> l, res |-> None]
    ELSE [l |-> [ops |-> Tail(l.ops), redo |-> push(l.redo, Head(l.ops))],
          res |-> Some(Head(l.ops))]

\* UndoLedger::undo
UndoLedger_undo(l) ==
    IF l.ops = <<>> THEN [l |-> l, res |-> None]
    ELSE LET op == l.ops[Len(l.ops)] IN
         [l |-> [ops |-> pop(l.ops), redo |-> push(l.redo, op)],
          res |-> Some(op)]

\* UndoLedger::redo
UndoLedger_redo(l) ==
    IF l.redo = <<>> THEN [l |-> l, res |-> None]
    ELSE LET op == l.redo[Len(l.redo)] IN
         [l |-> [ops |-> push(l.ops, op), redo |-> pop(l.redo)],
          res |-> Some(op)]

\* UndoService::undo
UndoService_undo(l) ==
    LET u == UndoLedger_undo(l) IN
    [l |-> u.l,
     res |-> IF u.res = None THEN InvalidOp("nothing to undo")
             ELSE [tag |-> "Ok", op |-> u.res[1]]]

\* The push numbers of the entries of a vector.
ids(v) == {v[i].id : i \in 1..Len(v)}

\* The number of pushes so far.
pushes == Cardinality(ids(ledger.ops) \cup ids(ledger.redo) \cup dropped)

\* UndoService::record / UndoLedger::push
LedgerPush ==
    /\ last = Idle
    /\ pushes < MaxPush
    /\ \E op \in UndoOps :
           LET entry == [op |-> op, id |-> pushes + 1] IN
           /\ ledger' = UndoLedger_push(ledger, entry)
           /\ last' = [op |-> "push", entry |-> entry]
    /\ dropped' = dropped \cup ids(ledger.redo)
    /\ UNCHANGED <<stacks, branch_to_stack, file, inv, core, hist>>

LedgerUndo ==
    /\ last = Idle
    /\ LET r == UndoLedger_undo(ledger) IN
       /\ ledger' = r.l
       /\ last' = [op |-> "undo", res |-> r.res]
    /\ UNCHANGED <<stacks, branch_to_stack, file, inv, core, dropped, hist>>

ServiceUndo ==
    /\ last = Idle
    /\ LET r == UndoService_undo(ledger) IN
       /\ ledger' = r.l
       /\ last' = [op |-> "UndoService_undo", res |-> r.res]
    /\ UNCHANGED <<stacks, branch_to_stack, file, inv, core, dropped, hist>>

LedgerRedo ==
    /\ last = Idle
    /\ LET r == UndoLedger_redo(ledger) IN
       /\ ledger' = r.l
       /\ last' = [op |-> "redo", res |-> r.res]
    /\ UNCHANGED <<stacks, branch_to_stack, file, inv, core, dropped, hist>>

NextUndo == LedgerPush \/ LedgerUndo \/ ServiceUndo \/ LedgerRedo \/ Return

SpecUndo == Init /\ [][NextUndo]_vars

(***************************************************************************)
(* The undo module of the sage binary: History                             *)
(*                                                                         *)
(* An Operation is modelled by its type_.  A History comes from            *)
(* History::load().unwrap_or_default(): from the file .git/sage_history,   *)
(* or History::default() when there is no file or it cannot be read or     *)
(* parsed.                                                                 *)
(***************************************************************************)
OperationTypes == {"commit", "merge", "rebase"}

\* The History values a history file can hold.
Historys ==
    {[operations |-> v, max_size |-> m] :
        v \in UNION {[1..n -> OperationTypes] : n \in 0..MaxOps},
        m \in 0..MaxSize}

\* History::load: Err for a missing, unreadable or unparsable file.
LoadErr == [tag |-> "Err"]
History_load == {LoadErr} \cup {[tag |-> "Ok", history |-> h] : h \in Historys}

\* `.unwrap_or_default()` on the Result of History::load.
History_unwrap_or_default(r) ==
    IF r.tag = "Ok" THEN r.history ELSE History_default

\* The thread panics: Vec::remove(0) on an empty vector.
Panic == [tag |-> "Panic"]

\* History::add
History_add(h, operation) ==
    IF Len(h.operations) >= h.max_size
    THEN IF h.operations = <<>>
         THEN [h |-> h, res |-> Panic]
         ELSE [h |-> [h EXCEPT !.operations = push(Tail(@), operation)],
               res |-> Ok]
    ELSE [h |-> [h EXCEPT !.operations = push(@, operation)], res |-> Ok]

\* History::record_operation; hash is the outcome of git::commit::hash().
record_operation(h, hash, op_type) ==
    IF hash # "ok" THEN [h |-> h, res |-> [tag |-> "Err"]]
    ELSE History_add(h, op_type)

HistoryLoad ==
    /\ last = Idle
    /\ \E r \in History_load :
           /\ hist' = History_unwrap_or_default(r)
           /\ last' = [op |-> "History_load", res |-> r.tag]
    /\ UNCHANGED <<stacks, branch_to_stack, file, inv, core, ledger, dropped>>

HistoryAdd ==
    /\ last = Idle
    /\ \E operation \in OperationTypes :
           LET r == History_add(hist, operation) IN
           /\ Len(r.h.operations) <= MaxOps
           /\ hist' = r.h
           /\ last' = [op |-> "add", operation |-> operation, res |-> r.res]
    /\ UNCHANGED <<stacks, branch_to_stack, file, inv, core, ledger, dropped>>

HistoryRecord ==
    /\ last = Idle
    /\ \E hash \in {"ok", "err"}, op_type \in OperationTypes :
           LET r == record_operation(hist, hash, op_type) IN
           /\ Len(r.h.operations) <= MaxOps
           /\ hist' = r.h
           /\ last' = [op |-> "record_operation", hash |-> hash,
                       operation |-> op_type, res |-> r.res]
    /\ UNCHANGED <<stacks, branch_to_stack, file, inv, core, ledger, dropped>>

NextHistory == HistoryLoad \/ HistoryAdd \/ HistoryRecord \/ Return

SpecHistory == Init /\ [][NextHistory]_vars

(***************************************************************************)
(* Properties                                                              *)
(***************************************************************************)
Branches(st) == DOMAIN st.branches

\* Number of occurrences of x in the vector v.
Count(v, x) == Cardinality({i \in 1..Len(v) : v[i] = x})

\* The step is a call of `op`: the caller was idle and now holds its Result.
Called(op) == last = Idle /\ last'.op = op

\* C1: no branch name is a key of `branches` in more than one stack.
C1_BranchInAtMostOneStack ==
    \A s1, s2 \in DOMAIN stacks :
        s1 # s2 => Branches(stacks[s1]) \cap Branches(stacks[s2]) = {}

\* C2: add_child(parent, child) returns UnknownBranch(parent) when parent is
\* not a branch of the target stack, and BranchExists(child) when child is
\* already a branch of any stack of the graph; the stack that owns child and
\* the branch_to_stack entry of child are then not overwritten.
C2_AddChildErrors ==
    [][Called("add_child") =>
        LET self == stacks[last'.stack]
            p == last'.parent
            c == last'.child
        IN  /\ ~contains_branch(self, p) => last'.res = UnknownBranch(p)
            /\ (contains_branch(self, p)
                   /\ \E t \in DOMAIN stacks : contains_branch(stacks[t], c))
                => /\ last'.res = BranchExists(c)
                   /\ stacks' = stacks
                   /\ branch_to_stack' = branch_to_stack]_vars

\* C3: in every stack exactly one branch has parent None, that branch is the
\* stack's root and is in `branches`, and every other branch's parent is a
\* branch of the same stack.
C3_RootedTree ==
    \A s \in DOMAIN stacks :
        LET st == stacks[s] IN
        /\ contains_branch(st, st.root)
        /\ {b \in Branches(st) : st.branches[b].parent = None} = {st.root}
        /\ \A b \in Branches(st) \ {st.root} :
               \E p \in Branches(st) : st.branches[b].parent = Some(p)

\* A stack of three branches, two levels deep, right after an add_child.
C3_Witness ==
    /\ last.op = "add_child"
    /\ last.res.tag = "Ok"
    /\ Cardinality(Branches(stacks[last.stack])) = 3
    /\ last.parent # stacks[last.stack].root

\* C4: for all branches p and c of a stack, c occurs in children[p] if and
\* only if branches[c].parent = Some(p), and it occurs there at most once.
C4_ChildrenMatchParents ==
    \A s \in DOMAIN stacks :
        LET st == stacks[s] IN
        \A p \in Branches(st), c \in Branches(st) :
            /\ Count(children_of(st, p), c) >= 1
                   <=> st.branches[c].parent = Some(p)
            /\ Count(children_of(st, p), c) <= 1

\* A successful reorder_children that changed the order of two children.
C4_Witness ==
    /\ last.op = "reorder_children"
    /\ last.res.tag = "Ok"
    /\ Len(last.new_order) = 2
    /\ last.new_order # sort(last.new_order)

\* C5: for every branch p of a stack (a leaf included) and every vector v,
\* reorder_children(p, v) succeeds if and only if sort(v) = sort(children[p]);
\* otherwise it fails with InvalidReorder.
C5_ReorderIffPermutation ==
    [][(Called("reorder_children")
          /\ contains_branch(stacks[last'.stack], last'.parent)) =>
        LET st == stacks[last'.stack]
            p == last'.parent
            v == last'.new_order
        IN  IF sort(v) = sort(children_of(st, p))
            THEN last'.res.tag = "Ok"
            ELSE last'.res.tag = "InvalidReorder"]_vars

\* C6: a successful reorder_children(p, v) leaves children[p] equal to v in
\* the caller's order and changes nothing else: the multiset of p's
\* children, `branches`, every other children list, the root, the other
\* stacks and branch_to_stack are unchanged.
C6_ReorderFrame ==
    [][(Called("reorder_children") /\ last'.res.tag = "Ok") =>
        LET s == last'.stack
            p == last'.parent
            v == last'.new_order
            st == stacks[s]
            st2 == stacks'[s]
        IN  /\ children_of(st2, p) = v
            /\ \A x \in BranchNames :
                   Count(v, x) = Count(children_of(st, p), x)
            /\ st2.branches = st.branches
            /\ st2.root = st.root
            /\ st2.name = st.name
            /\ DOMAIN st2.children_map = DOMAIN st.children_map
            /\ \A q \in DOMAIN st.children_map \ {p} :
                   st2.children_map[q] = st.children_map[q]
            /\ DOMAIN stacks' = DOMAIN stacks
            /\ \A t \in DOMAIN stacks \ {s} : stacks'[t] = stacks[t]
            /\ branch_to_stack' = branch_to_stack]_vars

\* A successful reorder_children whose new_order is not in sorted order, in a
\* state where the parent's list is that new_order.
C6_Witness ==
    /\ last.op = "reorder_children"
    /\ last.res.tag = "Ok"
    /\ last.new_order # sort(last.new_order)
    /\ children_of(stacks[last.stack], last.parent) = last.new_order

\* C7: a rejected reorder_children(p, v) returns InvalidReorder with parent
\* p, expected = the current children of p sorted, got = v sorted.
C7_InvalidReorderPayload ==
    [][(Called("reorder_children") /\ last'.res.tag = "InvalidReorder") =>
        LET st == stacks[last'.stack]
            p == last'.parent
            v == last'.new_order
        IN  last'.res = InvalidReorder(p, sort(children_of(st, p)), sort(v))]_vars

\* C8: when new_stack, add_child or reorder_children returns an error, every
\* stack and the branch_to_stack index are as they were before the call.
C8_ErrorLeavesGraph ==
    [][(last = Idle /\ last' # Idle /\ last'.res.tag # "Ok") =>
        /\ stacks' = stacks
        /\ branch_to_stack' = branch_to_stack]_vars

\* new_stack has just failed with BranchExists on a graph that has a stack.
C8_Witness ==
    /\ last.op = "new_stack"
    /\ last.res.tag = "BranchExists"
    /\ DOMAIN stacks # {}
    /\ ~has_stack(Graph, last.stack)

\* C9: new_stack(name, root) fails with StackExists when a stack called name
\* exists, fails with BranchExists when (no such stack exists and) root is a
\* branch of any stack, and otherwise registers under name a stack whose
\* only branch is root, with parent None and an empty children list, sets
\* branch_to_stack[root] = name and leaves the existing stacks unchanged.
C9_NewStack ==
    [][Called("new_stack") =>
        LET name == last'.stack
            root == last'.root
        IN  IF name \in DOMAIN stacks
            THEN last'.res = StackExists(name)
            ELSE IF \E t \in DOMAIN stacks : root \in Branches(stacks[t])
            THEN last'.res = BranchExists(root)
            ELSE /\ last'.res.tag = "Ok"
                 /\ DOMAIN stacks' = DOMAIN stacks \cup {name}
                 /\ stacks'[name].name = name
                 /\ stacks'[name].root = root
                 /\ Branches(stacks'[name]) = {root}
                 /\ stacks'[name].branches[root].parent = None
                 /\ DOMAIN stacks'[name].children_map = {root}
                 /\ stacks'[name].children_map[root] = <<>>
                 /\ branch_to_stack'[root] = name
                 /\ \A t \in DOMAIN stacks : stacks'[t] = stacks[t]]_vars

\* new_stack has just registered a second stack.
C9_Witness ==
    /\ last.op = "new_stack"
    /\ last.res.tag = "Ok"
    /\ Cardinality(DOMAIN stacks) = 2
    /\ branch_to_stack[last.root] = last.stack

\* C10: a successful add_child(parent, child) inserts child with parent
\* Some(parent) and status Draft, appends child as the last element of
\* children[parent] keeping the order of the others, and sets
\* branch_to_stack[child] to the stack's name; no other branch, children
\* list, index entry or stack changes.
C10_AddChildEffect ==
    [][(Called("add_child") /\ last'.res.tag = "Ok") =>
        LET s == last'.stack
            p == last'.parent
            c == last'.child
            st == stacks[s]
            st2 == stacks'[s]
        IN  /\ Branches(st2) = Branches(st) \cup {c}
            /\ st2.branches[c].name = c
            /\ st2.branches[c].parent = Some(p)
            /\ st2.branches[c].status = "Draft"
            /\ \A b \in Branches(st) \ {c} : st2.branches[b] = st.branches[b]
            /\ children_of(st2, p) = Append(children_of(st, p), c)
            /\ \A q \in BranchNames \ {p} :
                   children_of(st2, q) = children_of(st, q)
            /\ st2.root = st.root
            /\ st2.name = st.name
            /\ DOMAIN branch_to_stack' = DOMAIN branch_to_stack \cup {c}
            /\ branch_to_stack'[c] = st.name
            /\ \A b \in DOMAIN branch_to_stack \ {c} :
                   branch_to_stack'[b] = branch_to_stack[b]
            /\ DOMAIN stacks' = DOMAIN stacks
            /\ \A t \in DOMAIN stacks \ {s} : stacks'[t] = stacks[t]]_vars

\* add_child has just appended a second child to a parent.
C10_Witness ==
    /\ last.op = "add_child"
    /\ last.res.tag = "Ok"
    /\ Len(children_of(stacks[last.stack], last.parent)) = 2
    /\ children_of(stacks[last.stack], last.parent)[2] = last.child

\* C11: for every graph g reachable by new_stack, add_child and
\* reorder_children, save(g) followed by load_or_default returns a graph
\* whose stacks (names, roots, branch nodes, ordered children lists) are g's.
C11_RoundTrip ==
    (last.op = "save" /\ last.res.tag = "Ok") =>
        \A order \in Orders(StackNames) :
            LET r == load_or_default(file, order) IN
            /\ r.res.tag = "Ok"
            /\ r.g.stacks = stacks

\* A graph with a children list that is not in sorted order has been saved.
C11_Witness ==
    /\ last.op = "save"
    /\ last.res.tag = "Ok"
    /\ \E s \in DOMAIN stacks : \E p \in DOMAIN stacks[s].children_map :
           /\ Len(stacks[s].children_map[p]) = 2
           /\ stacks[s].children_map[p] # sort(stacks[s].children_map[p])

\* C12: in every reachable state branch_to_stack[b] = s exactly when b is a
\* branch of stack s, and the index rebuilt by load_or_default equals the
\* index that was maintained before the save.
C12_IndexExact ==
    /\ \A b \in BranchNames, s \in StackNames :
           (b \in DOMAIN branch_to_stack /\ branch_to_stack[b] = s)
               <=> (s \in DOMAIN stacks /\ b \in Branches(stacks[s]))
    /\ (last.op = "save" /\ last.res.tag = "Ok") =>
           \A order \in Orders(StackNames) :
               load_or_default(file, order).g.branch_to_stack = branch_to_stack

\* C13: load_or_default returns an empty graph when the stack file is
\* absent; when the file is present but cannot be read or does not parse it
\* returns an Io or Serde error instead of a graph.
C13_LoadErrors ==
    last.op = "load_or_default" =>
        CASE file.kind = "absent" ->
                 last.res.tag = "Ok" /\ stacks = EmptyMap
          [] file.kind = "unreadable" -> last.res.tag = "Io"
          [] file.kind = "garbage" -> last.res.tag = "Serde"
          [] file.kind = "text" -> last.res.tag = "Ok"

\* C14: with the steps of two invocations interleaved in any order, no
\* save is blocked or rejected (a save that the file system carries out
\* returns Ok, whatever the other invocation did), the file afterwards is
\* the graph in memory of the invocation that saved last, and what the
\* other invocation saved after the last saver loaded is lost.
C14_LastWriterWins ==
    /\ [](\A i \in Invocations : inv[i].pc = "loaded" => ENABLED InvSave(i))
    /\ [][\A i \in Invocations :
            (inv[i].pc = "loaded" /\ inv'[i].pc \in {"saved", "failed"}
               /\ last'.io = "ok") =>
                /\ last'.res.tag = "Ok"
                /\ inv'[i].pc = "saved"
                /\ file' = Text(graph_to_json(inv[i].g))
                /\ (inv[i].stale /\ file.kind = "text") =>
                       \A s \in DOMAIN file.json.stacks :
                           s \notin DOMAIN inv[i].g.stacks
                               => s \notin DOMAIN file'.json.stacks]_vars

\* Both invocations have saved, invocation 1 last and with a graph loaded
\* before invocation 2 saved; a stack that invocation 2 saved is not in the
\* file.
C14_Witness ==
    /\ inv[1].pc = "saved"
    /\ inv[2].pc = "saved"
    /\ last.op = "save"
    /\ last.who = 1
    /\ inv[1].stale
    /\ file.kind = "text"
    /\ \E s \in DOMAIN inv[2].wrote : s \notin DOMAIN file.json.stacks

\* The history has no commit id twice.
Distinct(h) == \A i, j \in 1..Len(h) : h[i] = h[j] => i = j

\* The caller holds the Result of from_commits for this history.
Built(h) == last.op = "from_commits" /\ last.history = h

\* C15: from_commits called with an empty commit sequence fails with the
\* empty-history error (CoreError::Graph("empty history")) and produces no
\* graph.
C15_EmptyHistory ==
    Built(<<>>) => last.res = CoreError_Graph("empty history") /\ core = NoCore

C15_Witness == Built(<<>>) /\ last.res.tag = "Graph"

\* C16: for every history of n >= 1 commits with pairwise distinct ids,
\* from_commits yields a graph with exactly one branch, the root, which has
\* no parent and no children and whose tip is the id of the last commit.
C16_LinearHistory ==
    (last.op = "from_commits" /\ last.history # <<>> /\ Distinct(last.history)) =>
        /\ last.res = CoreOk(core)
        /\ DOMAIN core.parents = {CoreRoot}
        /\ DOMAIN core.children = {CoreRoot}
        /\ DOMAIN core.commits = {CoreRoot}
        /\ core.parents[CoreRoot] = None
        /\ core.children[CoreRoot] = <<>>
        /\ core.commits[CoreRoot] = last.history[Len(last.history)]

C16_Witness ==
    /\ last.op = "from_commits"
    /\ Len(last.history) >= 3
    /\ Distinct(last.history)
    /\ core # NoCore

\* C17: for the history c1, c2, c3, then c2 again as a fork point, then c4,
\* from_commits yields exactly two branches: the original one with tip c3 and
\* a child of it (the branch that owned c2) with tip c4.
C17_ForkAtEarlierCommit ==
    Built(<<1, 2, 3, 2, 4>>) =>
        LET child == Append(CoreRoot, 1) IN
        /\ last.res = CoreOk(core)
        /\ DOMAIN core.commits = {CoreRoot, child}
        /\ core.commits[CoreRoot] = 3
        /\ core.commits[child] = 4
        /\ core.parents[child] = Some(CoreRoot)
        /\ core.children[CoreRoot] = <<child>>

\* The leaf whose key was inserted into `children` first.
first_leaf(g) ==
    g.order[CHOOSE i \in 1..Len(g.order) :
                /\ g.order[i] \in leaves(g)
                /\ \A j \in 1..(i - 1) : g.order[j] \notin leaves(g)]

\* C18: on a non-empty graph current_tip returns a branch whose children list
\* is empty, and with several leaves it returns the leaf inserted first.
C18_FirstLeaf ==
    (last.op = "current_tip" /\ leaves(core) # {}) =>
        /\ last.res # None
        /\ last.res[1].branch \in leaves(core)
        /\ last.res[1].branch = first_leaf(core)

\* C19: for a non-root branch b at index i of its parent's children list,
\* next_of(b) is the element at index i+1 (None when b is last) and
\* prev_of(b) the element at index i-1 (None when b is first); for the root
\* and for a branch not in the graph both return None.
C19_Siblings ==
    last.op \in {"next_of", "prev_of"} =>
        LET b == last.branch IN
        IF b \in DOMAIN core.parents /\ core.parents[b] # None
        THEN LET sib == core.children[core.parents[b][1]] IN
             \E i \in 1..Len(sib) :
                 /\ sib[i] = b
                 /\ last.op = "next_of" =>
                        last.res = IF i < Len(sib) THEN Some(sib[i + 1]) ELSE None
                 /\ last.op = "prev_of" =>
                        last.res = IF i > 1 THEN Some(sib[i - 1]) ELSE None
        ELSE last.res = None

C19_Witness ==
    /\ last.op = "next_of"
    /\ last.res # None
    /\ prev_of(core, last.res[1]) = Some(last.branch)
    /\ next_of(core, last.res[1]) = None
    /\ prev_of(core, last.branch) = None

\* The children lists of the branches of lvl, one after the other.
RECURSIVE children_of_all(_, _)
children_of_all(st, lvl) ==
    IF lvl = <<>> THEN <<>>
    ELSE children_of(st, Head(lvl)) \o children_of_all(st, Tail(lvl))

\* Level by level: lvl, then the children of lvl, then their children, ...
RECURSIVE breadth_first(_, _)
breadth_first(st, lvl) ==
    IF lvl = <<>> THEN <<>>
    ELSE lvl \o breadth_first(st, children_of_all(st, lvl))

\* C20: descendants(b) yields b first and then the branches of b's subtree
\* in breadth-first order, each children list in its stored order; the call
\* leaves the stack as it is, so calling it again yields the same sequence.
C20_DescendantsBreadthFirst ==
    /\ [](last.op = "descendants" =>
            /\ last.res[1] = last.branch
            /\ last.res = breadth_first(stacks[last.stack], <<last.branch>>)
            /\ last.res = descendants(stacks[last.stack], last.branch))
    /\ [][Called("descendants") =>
            UNCHANGED <<stacks, branch_to_stack>>]_vars

\* descendants of a root with two children, the first of which has a child,
\* and of the chain root, child, grandchild.
C20_Witness ==
    /\ last.op = "descendants"
    /\ LET st == stacks[last.stack] IN
       /\ last.branch = st.root
       /\ Len(last.res) = 4
       /\ Len(children_of(st, st.root)) = 2
       /\ children_of(st, last.res[2]) = <<last.res[4]>>
       /\ last.res = <<st.root>> \o children_of(st, st.root) \o <<last.res[4]>>
       /\ descendants(st, last.res[2]) = <<last.res[2], last.res[4]>>

\* C21: reorder_children(parent, v) fails with UnknownBranch(parent) exactly
\* when parent is not a branch of the stack; a branch of the stack, also one
\* that add_child added and that has no children yet, is a known parent.
C21_UnknownParentIffAbsent ==
    [][Called("reorder_children") =>
        (last'.res = UnknownBranch(last'.parent)
            <=> ~contains_branch(stacks[last'.stack], last'.parent))]_vars

\* C22: in from_commits, for each commit after the first: if its id is the
\* tip of an existing branch P, a new branch named "P/k", k = (number of
\* children P already has) + 1, is appended to P's children and becomes the
\* current branch; otherwise no branch is created and only the current
\* branch's tip changes, to that commit's id.
C22_LoopTurn ==
    [][(InLoop(core) /\ InLoop(core') /\ core' # core) =>
        LET id == Head(core.rest)
            g == core.g
            g2 == core'.g
        IN  IF \E P \in DOMAIN g.commits : g.commits[P] = id
            THEN \E P \in DOMAIN g.commits :
                    /\ g.commits[P] = id
                    /\ LET k == Len(g.children[P]) + 1
                           new == Append(P, k)
                       IN  /\ new \notin DOMAIN g.commits
                           /\ DOMAIN g2.commits = DOMAIN g.commits \cup {new}
                           /\ g2.children[P] = Append(g.children[P], new)
                           /\ g2.parents[new] = Some(P)
                           /\ core'.cur = new
            ELSE /\ core'.cur = core.cur
                 /\ g2 = [g EXCEPT !.commits[core.cur] = id]]_vars

\* A fork has been taken and the new branch has then been extended.
C22_Witness ==
    /\ InLoop(core)
    /\ core.cur # CoreRoot
    /\ core.g.commits[core.cur] # core.g.commits[core.g.parents[core.cur][1]]
    /\ Len(core.g.children[core.g.parents[core.cur][1]]) = 2

\* C23: in the graph returned by create_child_branch(new), the parent of
\* `new` is the branch that current_tip returned, and the single emitted
\* CreateBranch action names `new` and starts at that branch's tip commit.
C23_ChildOfCurrentTip ==
    (last.op = "create_child_branch" /\ last.res.tag = "Ok") =>
        /\ last.res.graph.parents[last.new] = Some(last.tip[1].branch)
        /\ last.res.actions =
               <<CreateBranch(last.new,
                              last.res.graph.commits[last.tip[1].branch])>>

\* The relations and tips of a core graph, without the insertion history.
shape(g) == [parents |-> g.parents, children |-> g.children,
             commits |-> g.commits]

\* C24: from_commits is a function of its input: every run on the commit
\* sequence of this run yields the same branch names, the same parent and
\* children relations and the same tips as this run.
C24_FromCommitsFunction ==
    (last.op = "from_commits" /\ last.res.tag = "Ok") =>
        \A r \in from_commits(last.history) :
            r.tag = "Ok" /\ shape(r.graph) = shape(last.res.graph)

\* C25: in every graph built by from_commits and extended by add_child calls
\* no two branches have the same tip commit.
C25_TipsUnique ==
    core # NoCore =>
        \A a, b \in DOMAIN core.commits :
            core.commits[a] = core.commits[b] => a = b

\* The branch reached from b by following parents n times, or the
\* parentless branch met on the way.
RECURSIVE ancestor(_, _, _)
ancestor(g, b, n) ==
    IF n = 0 \/ g.parents[b] = None THEN b
    ELSE ancestor(g, g.parents[b][1], n - 1)

\* The core graph g is a single tree rooted at "root" in which parents,
\* children and commits have the same keys, children[p] lists, without
\* repetition, exactly the branches whose parent is p, and every branch
\* descends from "root".
core_tree(g) ==
    /\ DOMAIN g.parents = DOMAIN g.commits
    /\ DOMAIN g.children = DOMAIN g.commits
    /\ {b \in DOMAIN g.parents : g.parents[b] = None} = {CoreRoot}
    /\ \A c \in DOMAIN g.parents :
           g.parents[c] # None => g.parents[c][1] \in DOMAIN g.parents
    /\ \A p, c \in DOMAIN g.parents :
           (\E i \in 1..Len(g.children[p]) : g.children[p][i] = c)
               <=> g.parents[c] = Some(p)
    /\ \A p \in DOMAIN g.children :
           \A i, j \in 1..Len(g.children[p]) :
               g.children[p][i] = g.children[p][j] => i = j
    /\ \A c \in DOMAIN g.parents :
           ancestor(g, c, Cardinality(DOMAIN g.parents)) = CoreRoot

\* C26: for every non-empty history the graph from_commits produces is a
\* single rooted tree (one parentless branch, "root"; every branch has an
\* entry in parents, children and commits; c is in children[p] exactly when
\* parents[c] = Some(p); no name twice), and in every turn of the loop each
\* branch that can be found as fork point has its children entry.
C26_SingleRootedTree ==
    /\ InLoop(core) =>
           /\ core_tree(core.g)
           /\ core.cur \in DOMAIN core.g.commits
           /\ \A id \in CommitIds :
                  tip_owners(core.g, id) \subseteq DOMAIN core.g.children
    /\ (last.op = "from_commits" /\ last.history # <<>>) =>
           /\ last.res.tag = "Ok"
           /\ core_tree(last.res.graph)

C26_Witness ==
    /\ last.op = "from_commits"
    /\ last.res.tag = "Ok"
    /\ Cardinality(DOMAIN last.res.graph.parents) >= 4
    /\ \E b \in DOMAIN last.res.graph.parents : Len(b) >= 3
    /\ \E b \in DOMAIN last.res.graph.parents :
           Len(last.res.graph.children[b]) >= 2

\* C27: for every stack reachable by new_stack, add_child and
\* reorder_children, descendants(root) yields every branch of the stack
\* exactly once and then ends: its element set is the key set of `branches`.
C27_DescendantsCoverStack ==
    /\ \A s \in DOMAIN stacks :
           LET d == descendants(stacks[s], stacks[s].root) IN
           /\ {d[i] : i \in 1..Len(d)} = DOMAIN stacks[s].branches
           /\ Len(d) = Cardinality(DOMAIN stacks[s].branches)
    /\ (last.op = "descendants" /\ last.branch = stacks[last.stack].root) =>
           /\ {last.res[i] : i \in 1..Len(last.res)}
                  = DOMAIN stacks[last.stack].branches
           /\ \A i, j \in 1..Len(last.res) : last.res[i] = last.res[j] => i = j

\* descendants(root) on a stack of three branches, one of which is also a
\* branch of the other stack.
C27_Witness ==
    /\ last.op = "descendants"
    /\ last.branch = stacks[last.stack].root
    /\ Len(last.res) = 3
    /\ \E s \in DOMAIN stacks :
           /\ s # last.stack
           /\ DOMAIN stacks[s].branches \cap DOMAIN stacks[last.stack].branches # {}

\* The entry of v that was pushed last.
newest(v) == CHOOSE e \in {v[i] : i \in 1..Len(v)} : \A i \in 1..Len(v) : v[i].id <= e.id

\* C28: on a ledger with at least one recorded op undo() returns the most
\* recently pushed op that has not been undone, and redo() right after it
\* returns the same op and brings ops and redo back to what they were before
\* the undo; on a ledger without ops undo() returns None and changes nothing.
C28_UndoRedo ==
    /\ [](LET u == UndoLedger_undo(ledger) IN
          IF ledger.ops = <<>>
          THEN u.res = None /\ u.l = ledger
          ELSE /\ u.res = Some(newest(ledger.ops))
               /\ UndoLedger_redo(u.l).res = u.res
               /\ UndoLedger_redo(u.l).l = ledger)
    /\ [][Called("undo") =>
            /\ last'.res = IF ledger.ops = <<>> THEN None
                           ELSE Some(newest(ledger.ops))
            /\ ledger.ops = <<>> => ledger' = ledger
            /\ ledger.ops # <<>> =>
                   /\ UndoLedger_redo(ledger').res = last'.res
                   /\ UndoLedger_redo(ledger').l = ledger]_vars
    /\ [][Called("UndoService_undo") =>
            /\ last'.res = IF ledger.ops = <<>> THEN InvalidOp("nothing to undo")
                           ELSE [tag |-> "Ok", op |-> newest(ledger.ops)]
            /\ ledger.ops = <<>> => ledger' = ledger]_vars

\* redo() right after an undo() that left an older op in the ledger and found
\* an earlier undone op in the redo list.
C28_Witness ==
    /\ last.op = "redo"
    /\ last.res # None
    /\ Len(ledger.ops) >= 2
    /\ ledger.redo # <<>>
    /\ last.res[1] = newest(ledger.ops)

\* C29: after push(op) the redo list is empty, so redo() returns an op only
\* if it was undone after the most recent push: an op that was in the redo
\* list at the time of a push is never returned again.
C29_PushClearsRedo ==
    /\ [][Called("push") => ledger'.redo = <<>>]_vars
    /\ [](ids(ledger.redo) \cap dropped = {})
    /\ []((last.op = "redo" /\ last.res # None) => last.res[1].id \notin dropped)

\* redo() returns an op although an earlier push has cleared the redo list.
C29_Witness ==
    /\ last.op = "redo"
    /\ last.res # None
    /\ dropped # {}

\* C30: for every History value, History::default() included, add(op) (also
\* when record_operation calls it) completes without aborting, leaves op as
\* the newest entry, removes at most the single oldest entry and keeps the
\* earlier entries in their order.
C30_AddNeverAborts ==
    [][(Called("add") \/ (Called("record_operation") /\ last'.hash = "ok")) =>
        /\ last'.res = Ok
        /\ hist'.operations # <<>>
        /\ hist'.operations[Len(hist'.operations)] = last'.operation
        /\ \/ pop(hist'.operations) = hist.operations
           \/ /\ hist.operations # <<>>
              /\ pop(hist'.operations) = Tail(hist.operations)]_vars

====
